---- MODULE Spec2Model ----
(***************************************************************************)
(* RevealText: the reveal-unit engine of src/main.ts.                      *)
(*                                                                         *)
(*   Spec       the reveal controller: units built by                      *)
(*              createInteractiveWordElement and driven by mouseenter,     *)
(*              mouseleave and click events.                               *)
(*   CountSpec  getRevealCount as a function of (wordLength, random draw). *)
(*   ScanSpec   the marker regex and the two transformers: the reading     *)
(*              mode post-processor and the editor's decoration builder.   *)
(*   StyleSpec  the controller with the Reveal Style setting.              *)
(*   LiveSpec   the editor plugin with its view: document, selection,      *)
(*              visible ranges, the prefix setting, the widgets' units.    *)
(*   VariantSpec  the containers each version of the plugin builds         *)
(*              (src/unnamed/part_000, part_001 and src/main.ts) and the   *)
(*              letters its hover handler addresses.                       *)
(***************************************************************************)
EXTENDS Integers, Sequences, FiniteSets, TLC

VARIABLES
    units,       \* the containers built so far, in build order
    wordLength,  \* CountSpec: the argument of getRevealCount
    draw,        \* CountSpec: the value Math.random returned, in RandRes-ths
    revealCount, \* CountSpec: the value getRevealCount returned (-1: not called)
    mode,        \* "reading" (post-processor), "live" (editor plugin);
                 \* VariantSpec: the version of the plugin
    prefix,      \* settings.prefix, a sequence of characters
    region,      \* ScanSpec, reading: the nodes of the rendered element, in order
    doc,         \* live: the editor's document text; VariantSpec: the text
                 \* handed to the post-processor
    decorations, \* live: the decorations, in the order they were added
    selection,   \* LiveSpec: view.state.selection.main
    visibleRanges, \* LiveSpec: view.visibleRanges
    revealStyle  \* settings.revealStyle

scanVars == <<mode, prefix, region, doc, decorations, selection, visibleRanges>>

vars == <<units, wordLength, draw, revealCount, revealStyle, scanVars>>

(***************************************************************************)
(* Bounds.                                                                 *)
(***************************************************************************)
\* containers in the region
MaxUnits == 2
\* letters of all containers together
MaxLetters == 9
\* Math.random() is modelled as draw / RandRes with draw \in 0 .. RandRes-1
RandRes == 8
\* longest word CountSpec hands to getRevealCount
MaxWordLength == 24

Draws == 0 .. (RandRes - 1)

(***************************************************************************)
(* Settings, main.ts 5-13.                                                 *)
(***************************************************************************)
RevealStyles == {"blur", "underline"}

DEFAULT_SETTINGS ==
    [revealStyle |-> "blur", prefix |-> <<"r", "e", ":">>]

(***************************************************************************)
(* Words.  A word is a sequence of one-character strings.                  *)
(***************************************************************************)
BaseWord == <<"w", "o", "n", "d", "e", "r", "f", "u", "l">>

WordOfLength(n) == [i \in 1 .. n |-> BaseWord[((i - 1) % Len(BaseWord)) + 1]]

(***************************************************************************)
(* getRevealCount, main.ts 32-39.  Math.floor(Math.random() * k) is        *)
(* (d * k) \div RandRes for the draw d.                                    *)
(***************************************************************************)
RandomBelow(k, d) == (d * k) \div RandRes

getRevealCountNoPlusOne(n, d) ==
    IF n <= 4 THEN 1
    ELSE IF n <= 6 THEN RandomBelow(2, d) + 1
    ELSE IF n <= 8 THEN RandomBelow(2, d) + 2
    ELSE LET min == n \div 3
             max == n \div 2
         IN  RandomBelow(max - min, d) + min

getRevealCount(n, d) ==
    IF n <= 4 THEN 1
    ELSE IF n <= 6 THEN RandomBelow(2, d) + 1
    ELSE IF n <= 8 THEN RandomBelow(2, d) + 2
    ELSE LET min == n \div 3
             max == n \div 2
         IN  RandomBelow(max - min + 1, d) + min

(***************************************************************************)
(* createInteractiveWordElement, main.ts 19-30: one letter span per        *)
(* character, in order; no class "fully-revealed" on the container and no  *)
(* class "temp-revealed" on any letter.  temp is the set of (0-based)      *)
(* indices of the letters that carry "temp-revealed"; style is the class   *)
(* main.ts 22 adds for settings.revealStyle as it is at the call.          *)
(***************************************************************************)
StyleClass(style) ==
    IF style = "blur" THEN "blur-style" ELSE "underline-style"

createInteractiveWordElementRevealed(word) ==
    [letters |-> word, temp |-> {}, full |-> TRUE,
     style |-> StyleClass(revealStyle)]

createInteractiveWordElement(word) ==
    [letters |-> word, temp |-> {}, full |-> FALSE,
     style |-> StyleClass(revealStyle)]

Indices(unit) == 0 .. (Len(unit.letters) - 1)

(***************************************************************************)
(* shuffledIndices, main.ts 45: the indices 0 .. n-1 sorted with a random  *)
(* comparator, which is some permutation of them.  The handler reads only  *)
(* its first revealCount entries, so for every set S of k indices one      *)
(* permutation that starts with S stands for all of them.                  *)
(***************************************************************************)
RECURSIVE Ascending(_)
Ascending(S) ==
    IF S = {} THEN <<>>
    ELSE LET m == CHOOSE x \in S : \A y \in S : x <= y
         IN  <<m>> \o Ascending(S \ {m})

ShufflesOf[n \in 0 .. MaxLetters, k \in 0 .. MaxLetters] ==
    {Ascending(S) \o Ascending((0 .. (n - 1)) \ S) :
        S \in {T \in SUBSET (0 .. (n - 1)) : Cardinality(T) = k}}

Shuffles(unit, k) == ShufflesOf[Len(unit.letters), k]

\* the values getRevealCount(letters.length) can return, main.ts 44
RevealCounts(unit) ==
    {getRevealCount(Len(unit.letters), d) : d \in Draws}

(***************************************************************************)
(* The handlers, main.ts 41-58, as functions of the container's state.     *)
(* shuffledIndices is 1-based here: entry i of the code is entry i + 1.    *)
(***************************************************************************)
FirstShuffled(shuffledIndices, k) ==
    {shuffledIndices[i + 1] : i \in 0 .. (k - 1)}

onMouseEnterUnguarded(unit, k, shuffledIndices) ==
    [unit EXCEPT !.temp = FirstShuffled(shuffledIndices, k)]

onMouseEnterAccumulating(unit, k, shuffledIndices) ==
    IF unit.full THEN unit
    ELSE [unit EXCEPT !.temp = unit.temp \cup FirstShuffled(shuffledIndices, k)]

onMouseEnter(unit, k, shuffledIndices) ==
    IF unit.full THEN unit
    ELSE [unit EXCEPT !.temp = FirstShuffled(shuffledIndices, k)]

onMouseLeaveKeeping(unit) == unit

onMouseLeave(unit) ==
    IF unit.full THEN unit
    ELSE [unit EXCEPT !.temp = {}]

onClickLatch(unit) == [unit EXCEPT !.full = TRUE]

onClickClearingMarks(unit) == [unit EXCEPT !.full = ~unit.full, !.temp = {}]

onClick(unit) == [unit EXCEPT !.full = ~unit.full]

(***************************************************************************)
(* Spec: the controller.                                                   *)
(***************************************************************************)
TotalLetters ==
    LET RECURSIVE Sum(_)
        Sum(i) == IF i = 0 THEN 0 ELSE Len(units[i].letters) + Sum(i - 1)
    IN  Sum(Len(units))

ScanIdle ==
    /\ mode = "none"
    /\ prefix = <<>>
    /\ region = <<>>
    /\ doc = <<>>
    /\ decorations = <<>>
    /\ selection = [from |-> 0, to |-> 0]
    /\ visibleRanges = <<>>

Init ==
    /\ units = <<>>
    /\ wordLength = 0
    /\ draw = 0
    /\ revealCount = 0
    /\ revealStyle = DEFAULT_SETTINGS.revealStyle
    /\ ScanIdle

\* a transformer builds the container of one more matched word
CreateUnit ==
    /\ Len(units) < MaxUnits
    /\ \E n \in 1 .. (MaxLetters - TotalLetters) :
          units' = Append(units, createInteractiveWordElement(WordOfLength(n)))
    /\ UNCHANGED <<wordLength, draw, revealCount, revealStyle, scanVars>>

MouseEnter ==
    \E u \in DOMAIN units :
        \E k \in RevealCounts(units[u]) :
            \E shuffledIndices \in Shuffles(units[u], k) :
               /\ units' = [units EXCEPT ![u] = onMouseEnter(@, k, shuffledIndices)]
               /\ UNCHANGED <<wordLength, draw, revealCount, revealStyle, scanVars>>

MouseLeave ==
    \E u \in DOMAIN units :
        /\ units' = [units EXCEPT ![u] = onMouseLeave(@)]
        /\ UNCHANGED <<wordLength, draw, revealCount, revealStyle, scanVars>>

Click ==
    \E u \in DOMAIN units :
        /\ units' = [units EXCEPT ![u] = onClick(@)]
        /\ UNCHANGED <<wordLength, draw, revealCount, revealStyle, scanVars>>

Next == CreateUnit \/ MouseEnter \/ MouseLeave \/ Click

Spec == Init /\ [][Next]_vars

(***************************************************************************)
(* CountSpec: getRevealCount on every word length and draw.                *)
(***************************************************************************)
CountInit ==
    /\ units = <<>>
    /\ wordLength \in 1 .. MaxWordLength
    /\ draw = 0
    /\ revealCount = -1
    /\ revealStyle = DEFAULT_SETTINGS.revealStyle
    /\ ScanIdle

CallGetRevealCount ==
    /\ \E d \in Draws :
          /\ draw' = d
          /\ revealCount' = getRevealCount(wordLength, d)
    /\ UNCHANGED <<units, wordLength, revealStyle, scanVars>>

CountNext == CallGetRevealCount

CountSpec == CountInit /\ [][CountNext]_vars

(***************************************************************************)
(* StyleSpec: the controller with the Reveal Style setting of the settings *)
(* tab, main.ts 212-222.                                                   *)
(***************************************************************************)
\* containers of StyleSpec
MaxStyleUnits == 2
\* letters of all containers of StyleSpec together
MaxStyleLetters == 3

\* loadSettings, main.ts 99-101: the default or the stored value
StyleInit ==
    /\ units = <<>>
    /\ wordLength = 0
    /\ draw = 0
    /\ revealCount = 0
    /\ revealStyle \in RevealStyles
    /\ ScanIdle

StyleCreateUnit ==
    /\ Len(units) < MaxStyleUnits
    /\ \E n \in 1 .. (MaxStyleLetters - TotalLetters) :
          units' = Append(units, createInteractiveWordElement(WordOfLength(n)))
    /\ UNCHANGED <<wordLength, draw, revealCount, revealStyle, scanVars>>

\* the dropdown's onChange, main.ts 219-222
ChangeRevealStyleRestyling ==
    /\ \E value \in RevealStyles :
          /\ revealStyle' = value
          /\ units' = [u \in DOMAIN units |->
                          [units[u] EXCEPT !.style = StyleClass(value)]]
    /\ UNCHANGED <<wordLength, draw, revealCount, scanVars>>

ChangeRevealStyle ==
    /\ \E value \in RevealStyles : revealStyle' = value
    /\ UNCHANGED <<units, wordLength, draw, revealCount, scanVars>>

StyleNext ==
    \/ StyleCreateUnit
    \/ ChangeRevealStyle
    \/ MouseEnter
    \/ MouseLeave
    \/ Click

StyleSpec == StyleInit /\ [][StyleNext]_vars

(***************************************************************************)
(* ScanSpec.  Texts are sequences of one-character strings; positions and  *)
(* indices are 0-based as in the code, so character i of the code is       *)
(* text[i + 1].                                                            *)
(***************************************************************************)
\* longest settings.prefix of the initial states
MaxPrefixLen == 2
\* most characters of a rendered element's text leaves together, and of a
\* document
MaxTextLen == 4
\* most text leaves of a rendered element
MaxLeaves == 2

\* a word character, a character that means itself in a regular expression
\* and one that does not
Alphabet == {"a", ":", "."}

TextsOfLength(n) == [1 .. n -> Alphabet]

Texts(max) == UNION {TextsOfLength(n) : n \in 0 .. max}

Prefixes == Texts(MaxPrefixLen) \ {<<>>}

\* \w of a regular expression without the u and i flags: [A-Za-z0-9_]
WordChars ==
    {"a", "b", "c", "d", "e", "f", "g", "h", "i", "j", "k", "l", "m",
     "n", "o", "p", "q", "r", "s", "t", "u", "v", "w", "x", "y", "z",
     "A", "B", "C", "D", "E", "F", "G", "H", "I", "J", "K", "L", "M",
     "N", "O", "P", "Q", "R", "S", "T", "U", "V", "W", "X", "Y", "Z",
     "0", "1", "2", "3", "4", "5", "6", "7", "8", "9", "_"}

\* the class of prefix.replace(/[-\/\\^$*+?.()|[\]{}]/g, '\\$&'), main.ts 114
EscapeClassNoDot ==
    {"-", "/", "\\", "^", "$", "*", "+", "?", "(", ")", "|", "[", "]",
     "{", "}"}

EscapeClass ==
    {"-", "/", "\\", "^", "$", "*", "+", "?", ".", "(", ")", "|", "[", "]",
     "{", "}"}

\* prefix.replace(class, '\\$&'): a backslash before every character of the
\* class
RECURSIVE escapePrefix(_)
escapePrefix(p) ==
    IF p = <<>> THEN <<>>
    ELSE (IF Head(p) \in EscapeClass THEN <<"\\", Head(p)>> ELSE <<Head(p)>>)
         \o escapePrefix(Tail(p))

(***************************************************************************)
(* new RegExp(escaped + "(\\w+)", 'g'), main.ts 114 and 174.  The source   *)
(* of the prefix part is read as the regular expression grammar reads it:  *)
(* a backslash and a character is that character, an unescaped "." is any  *)
(* character but a line terminator, any other character of the texts here  *)
(* is itself.  The rest of the pattern is the group (\w+).                 *)
(***************************************************************************)
RECURSIVE ParseAtoms(_)
ParseAtoms(src) ==
    IF src = <<>> THEN <<>>
    ELSE IF Head(src) = "\\" /\ Len(src) >= 2
         THEN <<[kind |-> "char", ch |-> src[2]]>>
              \o ParseAtoms(SubSeq(src, 3, Len(src)))
    ELSE IF Head(src) = "."
         THEN <<[kind |-> "any", ch |-> "."]>> \o ParseAtoms(Tail(src))
    ELSE <<[kind |-> "char", ch |-> Head(src)]>> \o ParseAtoms(Tail(src))

RegExpOf(p) == ParseAtoms(escapePrefix(p))

AtomMatches(atom, c) ==
    IF atom.kind = "any" THEN c \notin {"\n", "\r"} ELSE c = atom.ch

\* the prefix part matches the text at position s
PrefixMatchesAt(atoms, text, s) ==
    /\ s + Len(atoms) <= Len(text)
    /\ \A i \in 1 .. Len(atoms) : AtomMatches(atoms[i], text[s + i])

\* \w+ is greedy: the end of the run of word characters that starts at q
RECURSIVE WordRunEnd(_, _)
WordRunEnd(text, q) ==
    IF q < Len(text) /\ text[q + 1] \in WordChars
    THEN WordRunEnd(text, q + 1)
    ELSE q

\* the pattern matches at s: the prefix part, then at least one word
\* character
MatchesAt(atoms, text, s) ==
    /\ PrefixMatchesAt(atoms, text, s)
    /\ WordRunEnd(text, s + Len(atoms)) > s + Len(atoms)

\* the match at s: index, match[0] and the captured word
MatchAt(atoms, text, s) ==
    LET e == WordRunEnd(text, s + Len(atoms))
    IN  [index |-> s,
         all   |-> SubSeq(text, s + 1, e),
         word  |-> SubSeq(text, s + Len(atoms) + 1, e)]

\* a global regular expression resumes after the end of the last match
NextLastIndexStep(m) == m.index + 1

NextLastIndex(m) == m.index + Len(m.all)

\* text.matchAll(regex): the leftmost match at or after lastIndex, then the
\* matches after its end
RECURSIVE MatchAllFrom(_, _, _)
MatchAllFrom(atoms, text, lastIndex) ==
    LET starts == {s \in lastIndex .. Len(text) : MatchesAt(atoms, text, s)}
    IN  IF starts = {} THEN <<>>
        ELSE LET s == CHOOSE x \in starts : \A y \in starts : x <= y
                 m == MatchAt(atoms, text, s)
             IN  <<m>> \o MatchAllFrom(atoms, text, NextLastIndex(m))

matchAll(text, p) == MatchAllFrom(RegExpOf(p), text, 0)

(***************************************************************************)
(* Reading mode, main.ts 111-149.  The rendered element is the sequence of *)
(* its text leaves and reveal containers in document order.                *)
(***************************************************************************)
TextNode(t) == [kind |-> "text", text |-> t]

UnitNode(word) ==
    [kind |-> "unit", text |-> createInteractiveWordElement(word).letters]

\* String.prototype.substring(a, b): the arguments are swapped when a > b
SubstringFromStart(text, a, b) == SubSeq(text, 1, b)

Substring(text, a, b) ==
    IF a <= b THEN SubSeq(text, a + 1, b) ELSE SubSeq(text, b + 1, a)

\* the loop of main.ts 128-142 from one value of lastIndex on
RECURSIVE FragmentFrom(_, _, _)
FragmentFrom(text, matches, lastIndex) ==
    IF matches = <<>>
    THEN <<TextNode(Substring(text, lastIndex, Len(text)))>>
    ELSE LET match == Head(matches)
         IN  <<TextNode(Substring(text, lastIndex, match.index)),
               UnitNode(match.word)>>
             \o FragmentFrom(text, Tail(matches),
                             match.index + Len(match.all))

\* the values lastIndex takes, main.ts 126 and 139
LastIndexValues(matches) ==
    <<0>> \o [i \in 1 .. Len(matches) |->
                 matches[i].index + Len(matches[i].all)]

\* walker.nextNode(), main.ts 116.  cur is the place of walker.currentNode
\* in the element (0: the root).  The letters of a reveal container are text
\* nodes too; the loop skips each (main.ts 118), so a container counts as
\* one skipped node.  Once currentNode has been replaced (main.ts 145) it
\* has neither parent nor sibling, and nextNode() finds nothing from it:
\* 0 is null.
nextNode(nodes, cur, replaced) ==
    IF replaced \/ cur >= Len(nodes) THEN 0 ELSE cur + 1

RECURSIVE WalkIntoUnits(_, _, _, _)
WalkIntoUnits(nodes, cur, replaced, p) ==
    LET n == nextNode(nodes, cur, replaced)
    IN  IF n = 0 THEN nodes
        ELSE LET text == nodes[n].text
                 matches == matchAll(text, p)
             IN  IF text # <<>> /\ matches # <<>>
                 THEN WalkIntoUnits(SubSeq(nodes, 1, n - 1)
                                      \o FragmentFrom(text, matches, 0)
                                      \o SubSeq(nodes, n + 1, Len(nodes)),
                                    n, TRUE, p)
                 ELSE WalkIntoUnits(nodes, n, FALSE, p)

RECURSIVE Walk(_, _, _, _)
Walk(nodes, cur, replaced, p) ==
    LET n == nextNode(nodes, cur, replaced)
    IN  IF n = 0 THEN nodes
        ELSE IF nodes[n].kind = "unit" THEN Walk(nodes, n, FALSE, p)
        ELSE LET text == nodes[n].text
                 matches == matchAll(text, p)
             IN  IF text # <<>> /\ matches # <<>>
                 THEN Walk(SubSeq(nodes, 1, n - 1)
                             \o FragmentFrom(text, matches, 0)
                             \o SubSeq(nodes, n + 1, Len(nodes)),
                           n, TRUE, p)
                 ELSE Walk(nodes, n, FALSE, p)

buildReadingModeProcessor(nodes, p) == Walk(nodes, 0, FALSE, p)

(***************************************************************************)
(* Live mode, main.ts 161-199.  view.visibleRanges are ranges {from, to}   *)
(* in increasing order that do not overlap; the main selection is a range  *)
(* {from, to} with from <= to.                                             *)
(***************************************************************************)
\* the whole document, or the document with one stretch not drawn
WholeDocument(d) == <<[from |-> 0, to |-> Len(d)]>>

VisibleRangeChoices(d) ==
    {WholeDocument(d)}
    \cup {<<[from |-> 0, to |-> gap[1]], [from |-> gap[2], to |-> Len(d)]>> :
             gap \in {g \in (1 .. Len(d)) \X (1 .. Len(d)) :
                          g[1] < g[2] /\ g[2] < Len(d)}}

Selections(d) ==
    {[from |-> s[1], to |-> s[2]] :
        s \in {x \in (0 .. Len(d)) \X (0 .. Len(d)) : x[1] <= x[2]}}

\* the matches of one visible range with their places in the document,
\* main.ts 177-181
RangeMatches(d, p, range) ==
    LET text == SubSeq(d, range.from + 1, range.to)
        matches == matchAll(text, p)
    IN  [i \in 1 .. Len(matches) |->
            LET startIndex == range.from + matches[i].index
            IN  [startIndex |-> startIndex,
                 endIndex   |-> startIndex + Len(matches[i].all),
                 word       |-> matches[i].word]]

\* the loop over view.visibleRanges, main.ts 176
RECURSIVE ScanRanges(_, _, _)
ScanRanges(d, p, ranges) ==
    IF ranges = <<>> THEN <<>>
    ELSE RangeMatches(d, p, Head(ranges))
         \o ScanRanges(d, p, Tail(ranges))

\* builder.add for every match, in the order found, main.ts 183-192
DecorateInsideOnly(found, sel) ==
    [i \in 1 .. Len(found) |->
        LET isEditing == sel.from < found[i].endIndex
                         /\ sel.to > found[i].startIndex
        IN  [from |-> found[i].startIndex,
             to   |-> found[i].endIndex,
             kind |-> IF isEditing THEN "mark" ELSE "widget",
             word |-> found[i].word]]

Decorate(found, sel) ==
    [i \in 1 .. Len(found) |->
        LET isEditing == sel.from <= found[i].endIndex
                         /\ sel.to >= found[i].startIndex
        IN  [from |-> found[i].startIndex,
             to   |-> found[i].endIndex,
             kind |-> IF isEditing THEN "mark" ELSE "widget",
             word |-> found[i].word]]

buildDecorations(d, p, ranges, sel) ==
    Decorate(ScanRanges(d, p, ranges), sel)

(***************************************************************************)
(* ScanSpec: a rendered element handed to the post-processor, or a         *)
(* document in the editor.                                                 *)
(***************************************************************************)
\* the text t cut into leaves after the positions of cuts
RECURSIVE CutAt(_, _)
CutAt(t, cuts) ==
    IF cuts = {} THEN <<TextNode(t)>>
    ELSE LET c == CHOOSE x \in cuts : \A y \in cuts : x <= y
         IN  <<TextNode(SubSeq(t, 1, c))>>
             \o CutAt(SubSeq(t, c + 1, Len(t)), {x - c : x \in cuts \ {c}})

\* the elements of at most MaxLeaves text leaves, none of them empty
Regions ==
    {<<>>} \cup
    UNION {{CutAt(t, cuts) :
               cuts \in {c \in SUBSET (1 .. (Len(t) - 1)) :
                            Cardinality(c) < MaxLeaves}} :
           t \in Texts(MaxTextLen) \ {<<>>}}

ScenarioText ==
    <<"P", "l", "e", "a", "s", "e", " ", "r", "e", ":", "o", "b", "s", "i",
      "d", "i", "a", "n", " ", "n", "o", "w">>

ScenarioPrefix == DEFAULT_SETTINGS.prefix

ControllerIdle ==
    /\ units = <<>>
    /\ wordLength = 0
    /\ draw = 0
    /\ revealCount = 0
    /\ revealStyle = DEFAULT_SETTINGS.revealStyle

ScanInit ==
    /\ ControllerIdle
    /\ selection = [from |-> 0, to |-> 0]
    /\ visibleRanges = <<>>
    /\ \/ /\ mode = "reading"
          /\ prefix \in Prefixes
          /\ region \in Regions
                /\ doc = <<>>
          /\ decorations = <<>>
       \/ /\ mode = "reading"
          /\ prefix = ScenarioPrefix
          /\ region = <<TextNode(ScenarioText)>>
                /\ doc = <<>>
          /\ decorations = <<>>
       \/ /\ mode = "live"
          /\ prefix \in Prefixes
          /\ region = <<>>
                /\ doc \in Texts(MaxTextLen)
          /\ decorations = buildDecorations(doc, prefix, WholeDocument(doc),
                                            [from |-> 0, to |-> 0])

\* the post-processor runs on the element, main.ts 80
ReadingModePass ==
    /\ mode = "reading"
    /\ region' = buildReadingModeProcessor(region, prefix)
    /\ UNCHANGED <<units, wordLength, draw, revealCount, revealStyle, mode,
                   prefix, doc, decorations, selection, visibleRanges>>

\* update() with viewportChanged or selectionSet, main.ts 166-170.  ScanSpec
\* does not keep the view: every update draws the visible ranges and the
\* selection of the view it is called with.
EditorUpdate ==
    /\ mode = "live"
    /\ \E ranges \in VisibleRangeChoices(doc) :
          \E found \in {ScanRanges(doc, prefix, ranges)} :
              \E sel \in Selections(doc) :
                  decorations' = Decorate(found, sel)
    /\ UNCHANGED <<units, wordLength, draw, revealCount, revealStyle, mode,
                   prefix, region, doc, selection, visibleRanges>>

ScanNext == ReadingModePass \/ EditorUpdate

ScanSpec == ScanInit /\ [][ScanNext]_vars

(***************************************************************************)
(* LiveSpec: the editor plugin with its view, main.ts 82-96 and 156-199.   *)
(* The state of the view is the document, the main selection and the       *)
(* visible ranges; units are the containers the widgets of the decorations *)
(* have drawn, in the order of the decorations.                            *)
(***************************************************************************)
\* longest document of LiveSpec
MaxDocLen == 3

\* the values of settings.prefix in LiveSpec: the text field stores whatever
\* is typed, the empty string too (main.ts 229-232)
LivePrefixes == {<<>>, <<":">>, <<"a">>, <<"a", ":">>}

\* the characters of LiveSpec's documents: a word character and one that
\* is none; each is a character of some prefix and of none of another
LiveAlphabet == {"a", ":"}

LiveTexts == UNION {[1 .. n -> LiveAlphabet] : n \in 0 .. MaxDocLen}

WidgetDecorations(decos) == SelectSeq(decos, LAMBDA d : d.kind = "widget")

\* RevealWidget.toDOM for every replace decoration, main.ts 156-159 and 191.
\* The widgets of a rebuilt set are new objects and RevealWidget has no eq,
\* so the editor draws each of them again.
RenderWidgets(decos) ==
    [i \in 1 .. Len(WidgetDecorations(decos)) |->
        createInteractiveWordElement(WidgetDecorations(decos)[i].word)]

LiveInit ==
    /\ wordLength = 0
    /\ draw = 0
    /\ revealCount = 0
    /\ revealStyle = DEFAULT_SETTINGS.revealStyle
    /\ mode = "live"
    /\ region = <<>>
    /\ prefix \in LivePrefixes
    /\ doc \in LiveTexts
    /\ selection = [from |-> 0, to |-> 0]
    /\ visibleRanges = WholeDocument(doc)
    /\ decorations = buildDecorations(doc, prefix, visibleRanges, selection)
    /\ units = RenderWidgets(decorations)

\* update() with one of docChanged, viewportChanged, selectionSet, main.ts
\* 166-170, on the view with document d, visible ranges and selection
RebuildKeepingUnits(d, ranges, sel) ==
    /\ doc' = d
    /\ visibleRanges' = ranges
    /\ selection' = sel
    /\ \E decos \in {buildDecorations(d, prefix, ranges, sel)} :
          /\ decorations' = decos
          /\ units' = [i \in DOMAIN RenderWidgets(decos) |->
                          IF i \in DOMAIN units
                             /\ units[i].letters = RenderWidgets(decos)[i].letters
                          THEN units[i]
                          ELSE RenderWidgets(decos)[i]]
    /\ UNCHANGED <<wordLength, draw, revealCount, revealStyle, mode, prefix,
                   region>>

Rebuild(d, ranges, sel) ==
    /\ doc' = d
    /\ visibleRanges' = ranges
    /\ selection' = sel
    /\ \E decos \in {buildDecorations(d, prefix, ranges, sel)} :
          /\ decorations' = decos
          /\ units' = RenderWidgets(decos)
    /\ UNCHANGED <<wordLength, draw, revealCount, revealStyle, mode, prefix,
                   region>>

\* the insertion point or the selection moves
SelectionSet ==
    /\ mode = "live"
    /\ \E sel \in Selections(doc) : Rebuild(doc, visibleRanges, sel)

\* the editor scrolls or is resized
ViewportChanged ==
    /\ mode = "live"
    /\ \E ranges \in VisibleRangeChoices(doc) : Rebuild(doc, ranges, selection)

\* the document with the selected stretch replaced by text
ReplaceSelection(d, sel, text) ==
    SubSeq(d, 1, sel.from) \o text \o SubSeq(d, sel.to + 1, Len(d))

Cursor(pos) == [from |-> pos, to |-> pos]

\* docChanged: a character is typed over the selection
TypeCharacter ==
    /\ mode = "live"
    /\ \E c \in LiveAlphabet :
          \E d \in {ReplaceSelection(doc, selection, <<c>>)} :
              /\ Len(d) <= MaxDocLen
              /\ \E ranges \in VisibleRangeChoices(d) :
                    Rebuild(d, ranges, Cursor(selection.from + 1))

\* docChanged: the selection, or the character before the insertion point,
\* is deleted
DeleteBackward ==
    /\ mode = "live"
    /\ selection.to > 0
    /\ \E sel \in {IF selection.from < selection.to THEN selection
                    ELSE [from |-> selection.from - 1, to |-> selection.to]} :
          \E d \in {ReplaceSelection(doc, sel, <<>>)} :
              \E ranges \in VisibleRangeChoices(d) :
                  Rebuild(d, ranges, Cursor(sel.from))

\* the menu item "Apply Reveal Text", main.ts 82-96: offered when the
\* selection is not empty; replaceSelection leaves the insertion point
\* after the text it put in
ApplyRevealText ==
    /\ mode = "live"
    /\ selection.from < selection.to
    /\ \E S \in {SubSeq(doc, selection.from + 1, selection.to)} :
          \E d \in {ReplaceSelection(doc, selection, prefix \o S)} :
              /\ Len(d) <= MaxDocLen
              /\ \E ranges \in VisibleRangeChoices(d) :
                    Rebuild(d, ranges,
                            Cursor(selection.from + Len(prefix) + Len(S)))

\* the settings tab's prefix field, main.ts 229-232: any value is stored.
\* saveSettings calls workspace.updateOptions (main.ts 105); the update it
\* causes in the editor rebuilds the decorations only if it carries one of
\* the three flags, so both outcomes are steps.
ChangePrefix ==
    /\ mode = "live"
    /\ \E value \in LivePrefixes :
          /\ prefix' = value
          /\ \/ UNCHANGED <<decorations, units>>
             \/ \E decos \in {buildDecorations(doc, value, visibleRanges,
                                                selection)} :
                   /\ decorations' = decos
                   /\ units' = RenderWidgets(decos)
    /\ UNCHANGED <<wordLength, draw, revealCount, revealStyle, mode, region,
                   doc, selection, visibleRanges>>

LiveNext ==
    \/ SelectionSet
    \/ ViewportChanged
    \/ TypeCharacter
    \/ DeleteBackward
    \/ ApplyRevealText
    \/ ChangePrefix
    \/ MouseEnter
    \/ MouseLeave
    \/ Click

LiveSpec == LiveInit /\ [][LiveNext]_vars

(***************************************************************************)
(* VariantSpec: how each version of the plugin builds a container and what *)
(* its hover handler addresses.  part_000 and part_001 are the earlier     *)
(* versions kept in src/unnamed: they replace a <code> element whose text  *)
(* is ++word++; main is src/main.ts, which builds a container for every    *)
(* token of the scan.  mode is the version, doc the text of the <code>     *)
(* element or of the text leaf; wordLength, draw and revealCount record    *)
(* the last hover: letters.length, the draw and the reveal count.          *)
(***************************************************************************)
\* longest text of a <code> element
MaxCodeLen == 5

Variants == {"part_000", "part_001", "main"}

CodeAlphabet == {"+", "a", " "}

\* the texts of a <code> element: every short text, and ++word++ for words
\* of every length up to MaxLetters
CodeTexts ==
    UNION {[1 .. n -> CodeAlphabet] : n \in 0 .. MaxCodeLen}
    \cup {<<"+", "+">> \o WordOfLength(n) \o <<"+", "+">> :
             n \in 1 .. MaxLetters}

\* String.prototype.trim
RECURSIVE Trim(_)
Trim(text) ==
    IF text = <<>> THEN text
    ELSE IF Head(text) = " " THEN Trim(Tail(text))
    ELSE IF text[Len(text)] = " " THEN Trim(SubSeq(text, 1, Len(text) - 1))
    ELSE text

\* text.startsWith('++') && text.endsWith('++')
IsPlusWrapped(text) ==
    /\ Len(text) >= 2
    /\ SubSeq(text, 1, 2) = <<"+", "+">>
    /\ SubSeq(text, Len(text) - 1, Len(text)) = <<"+", "+">>

\* text.substring(2, text.length - 2)
CodeWord(text) == Substring(text, 2, Len(text) - 2)

\* part_001 31: if (word); part_000 has no such test
WordAcceptedUnguarded(variant, word) == TRUE

WordAccepted(variant, word) == variant = "part_001" => word # <<>>

\* createInteractiveWord of part_000 (lines 86-98: no style class) and of
\* part_001 (lines 51-63)
createInteractiveWord(variant, word) ==
    IF variant = "part_000"
    THEN [letters |-> word, temp |-> {}, full |-> FALSE]
    ELSE createInteractiveWordElement(word)

\* the containers the post-processor of part_000 (lines 63-79) or part_001
\* (lines 25-36) builds for a <code> element
CodeUnits(variant, innerText) ==
    LET text == Trim(innerText)
    IN  IF IsPlusWrapped(text) /\ WordAccepted(variant, CodeWord(text))
        THEN <<createInteractiveWord(variant, CodeWord(text))>>
        ELSE <<>>

\* the containers main.ts builds for a text: one for every token
TokenUnits(text, p) ==
    [i \in DOMAIN matchAll(text, p) |->
        createInteractiveWordElement(matchAll(text, p)[i].word)]

Min(a, b) == IF a <= b THEN a ELSE b

\* the reveal count of the hover handler: part_000 110, part_001 81,
\* main.ts 44
VariantRevealCount(variant, n, d) ==
    IF variant = "part_000"
    THEN Min(n, RandomBelow(3, d) + 1)
    ELSE getRevealCount(n, d)

VariantInit ==
    /\ units = <<>>
    /\ wordLength = 0
    /\ draw = 0
    /\ revealCount = 0
    /\ revealStyle = DEFAULT_SETTINGS.revealStyle
    /\ region = <<>>
    /\ decorations = <<>>
    /\ selection = [from |-> 0, to |-> 0]
    /\ visibleRanges = <<>>
    /\ \/ /\ mode \in {"part_000", "part_001"}
          /\ prefix = <<>>
          /\ doc \in CodeTexts
       \/ /\ mode = "main"
          /\ prefix \in Texts(MaxPrefixLen)
          /\ doc \in Texts(MaxTextLen)

\* the post-processor of part_000 or part_001 on a <code> element
PostProcessCode ==
    /\ mode \in {"part_000", "part_001"}
    /\ units = <<>>
    /\ units' = CodeUnits(mode, doc)
    /\ UNCHANGED <<wordLength, draw, revealCount, revealStyle, scanVars>>

\* a transformer of main.ts on a text
PostProcessText ==
    /\ mode = "main"
    /\ units = <<>>
    /\ units' = TokenUnits(doc, prefix)
    /\ UNCHANGED <<wordLength, draw, revealCount, revealStyle, scanVars>>

\* onMouseOver of part_000 (103-119) and part_001 (76-87), onMouseEnter of
\* main.ts (41-49) on a container that is not fully revealed: the loop
\* addresses letters[shuffledIndices[i]] for i < revealCount.  With
\* revealCount > letters.length the loop marks every letter and then
\* reaches an index that is undefined.
VariantMouseEnter ==
    \E u \in DOMAIN units :
        \E d \in Draws :
            \E n \in {Len(units[u].letters)} :
                \E k \in {VariantRevealCount(mode, n, d)} :
                    /\ ~units[u].full
                    /\ wordLength' = n
                    /\ draw' = d
                    /\ revealCount' = k
                    /\ \E shuffledIndices \in Shuffles(units[u], Min(k, n)) :
                          units' = [units EXCEPT ![u].temp =
                                       FirstShuffled(shuffledIndices, Min(k, n))]
                    /\ UNCHANGED <<revealStyle, scanVars>>

VariantNext == PostProcessCode \/ PostProcessText \/ VariantMouseEnter

VariantSpec == VariantInit /\ [][VariantNext]_vars

(***************************************************************************)
(* Properties of the reveal controller (Spec) and of getRevealCount        *)
(* (CountSpec).                                                            *)
(***************************************************************************)
\* the table of reveal counts by word length
RevealRange(n) ==
    IF n <= 4 THEN {1}
    ELSE IF n <= 6 THEN {1, 2}
    ELSE IF n <= 8 THEN {2, 3}
    ELSE (n \div 3) .. (n \div 2)

\* C1: in every reachable state and for every unit, one click flips the
\* fully-revealed flag and two consecutive clicks restore it.
ClickIsAToggle ==
    \A u \in DOMAIN units :
        /\ onClick(units[u]).full = ~units[u].full
        /\ onClick(onClick(units[u])).full = units[u].full

\* a unit that a click has fully revealed
SomeUnitFullyRevealed ==
    \E u \in DOMAIN units : units[u].full

\* C2: in the state right after a click that turns the fully-revealed flag
\* off, no letter of the unit is temporarily visible.
LeavingFullRevealIsHidden ==
    [][\A u \in DOMAIN units :
          (units[u].full /\ ~units'[u].full) => units'[u].temp = {}]_vars

\* C3: in the state right after a click that turns the fully-revealed flag
\* on, no letter of the unit is temporarily visible.
EnteringFullRevealClearsMarks ==
    [][\A u \in DOMAIN units :
          (~units[u].full /\ units'[u].full) => units'[u].temp = {}]_vars

\* C4: a hover-enter (whatever the draw and the shuffle) or a hover-leave
\* delivered to a fully revealed unit changes neither its temporarily
\* visible letters nor its fully-revealed flag.
HoverSuppressedWhileFullyRevealed ==
    \A u \in DOMAIN units :
        units[u].full =>
            /\ onMouseLeave(units[u]) = units[u]
            /\ \A k \in RevealCounts(units[u]) :
                  \A shuffledIndices \in Shuffles(units[u], k) :
                      onMouseEnter(units[u], k, shuffledIndices) = units[u]

\* a fully revealed unit that still carries the marks of an earlier hover
FullyRevealedWithMarks ==
    \E u \in DOMAIN units : units[u].full /\ units[u].temp # {}

\* C5: the reveal count of a word of n >= 1 letters is between 1 and n and
\* in the table's range for n, and every value of that range is returned for
\* some draw.
RevealCountInTable ==
    /\ revealCount # -1 =>
          /\ 1 <= revealCount
          /\ revealCount <= wordLength
          /\ revealCount \in RevealRange(wordLength)
    /\ \A v \in RevealRange(wordLength) :
          \E d \in Draws : getRevealCount(wordLength, d) = v

\* getRevealCount(9) returned 4 = floor(9 / 2)
NineLettersRevealFour ==
    wordLength = 9 /\ revealCount = 4

\* C6: a hover-enter on a unit that is not fully revealed leaves exactly
\* revealCount letters temporarily visible, whatever letters were visible
\* before; the count is between 1 and n and in the table's range; a unit of
\* 4 letters gets exactly one, and each of its 4 letters can be the one.
HoverEnterMarksExactlyRevealCount ==
    \A u \in DOMAIN units :
        ~units[u].full =>
            LET n == Len(units[u].letters)
            IN  /\ \A k \in RevealCounts(units[u]) :
                      /\ 1 <= k
                      /\ k <= n
                      /\ k \in RevealRange(n)
                      /\ \A shuffledIndices \in Shuffles(units[u], k) :
                            LET after == onMouseEnter(units[u], k, shuffledIndices)
                            IN  /\ after.temp \subseteq Indices(units[u])
                                /\ Cardinality(after.temp) = k
                /\ n = 4 =>
                      /\ RevealCounts(units[u]) = {1}
                      /\ \A i \in Indices(units[u]) :
                            \E shuffledIndices \in Shuffles(units[u], 1) :
                                onMouseEnter(units[u], 1, shuffledIndices).temp = {i}

\* a 4-letter unit with one letter marked by a hover, about to be hovered
\* again
FourLetterUnitHovered ==
    \E u \in DOMAIN units :
        /\ ~units[u].full
        /\ Len(units[u].letters) = 4
        /\ Cardinality(units[u].temp) = 1

\* C7: a hover-leave on a unit that is not fully revealed leaves no letter
\* temporarily visible, and so does a hover-enter followed by a hover-leave.
HoverLeaveClearsMarks ==
    \A u \in DOMAIN units :
        ~units[u].full =>
            /\ onMouseLeave(units[u]).temp = {}
            /\ \A k \in RevealCounts(units[u]) :
                  \A shuffledIndices \in Shuffles(units[u], k) :
                      onMouseLeave(onMouseEnter(units[u], k, shuffledIndices)).temp = {}

\* a partially revealed unit: hovered, not fully revealed
PartiallyRevealedUnit ==
    \E u \in DOMAIN units : ~units[u].full /\ Cardinality(units[u].temp) >= 2

\* the token of the README's example, re:obsidian
ScenarioToken == <<"o", "b", "s", "i", "d", "i", "a", "n">>

\* C11: the container built for a token has one letter cell per character
\* of the token, cell i holding character i, is not fully revealed and has
\* no letter temporarily visible ("obsidian" gives the 8 cells o, b, s, i,
\* d, i, a, n); every container added to the region is built so; and no
\* step changes the cells of a container that exists.
BuiltUnitIsTheTokenHidden ==
    /\ [](\A token \in {WordOfLength(n) : n \in 1 .. MaxLetters}
                          \cup {ScenarioToken} :
             LET unit == createInteractiveWordElement(token)
             IN  /\ Len(unit.letters) = Len(token)
                 /\ \A i \in 1 .. Len(token) : unit.letters[i] = token[i]
                 /\ unit.temp = {}
                 /\ ~unit.full)
    /\ [][/\ \A u \in DOMAIN units :
                /\ u \in DOMAIN units'
                /\ units'[u].letters = units[u].letters
          /\ \A u \in (DOMAIN units') \ (DOMAIN units) :
                /\ Len(units'[u].letters) >= 1
                /\ units'[u].letters = WordOfLength(Len(units'[u].letters))
                /\ units'[u].temp = {}
                /\ ~units'[u].full]_vars

\* an 8-letter container that was hovered and clicked after it was built
EightLetterUnitAfterEvents ==
    \E u \in DOMAIN units :
        /\ Len(units[u].letters) = 8
        /\ units[u].full
        /\ Cardinality(units[u].temp) = 3

\* C17: a container added by a step has the style class of the revealStyle
\* setting of that moment, blur-style or underline-style; no step, and so
\* no change of the setting and no hover or click, changes the style class
\* of a container that exists.
StyleFixedAtBuild ==
    [][/\ \A u \in DOMAIN units :
             /\ u \in DOMAIN units'
             /\ units'[u].style = units[u].style
       /\ \A u \in (DOMAIN units') \ (DOMAIN units) :
             /\ units'[u].style = StyleClass(revealStyle)
             /\ units'[u].style
                   = (IF revealStyle = "blur" THEN "blur-style"
                      ELSE "underline-style")]_vars

\* a blurred and an underlined container side by side, the first hovered
\* and clicked since
TwoStylesSideBySide ==
    /\ Len(units) = 2
    /\ units[1].style # units[2].style
    /\ units[1].style # StyleClass(revealStyle)
    /\ units[1].full
    /\ units[1].temp # {}

\* C20: in every reachable state a hover-enter (whatever the draw and the
\* shuffle) and a hover-leave leave the fully-revealed flag of the unit as
\* it is and a click leaves its temporarily visible letters as they are;
\* a step that changes the flag of a unit does not change its marks, and a
\* step changes at most one of the units that exist.
OnlyClickFlagsOnlyHoverMarks ==
    /\ [](\A u \in DOMAIN units :
             /\ onMouseLeave(units[u]).full = units[u].full
             /\ onClick(units[u]).temp = units[u].temp
             /\ \A k \in RevealCounts(units[u]) :
                   \A shuffledIndices \in Shuffles(units[u], k) :
                       onMouseEnter(units[u], k, shuffledIndices).full
                           = units[u].full)
    /\ [][\A u \in DOMAIN units :
             /\ units'[u].full # units[u].full =>
                    units'[u].temp = units[u].temp
             /\ \A v \in (DOMAIN units) \ {u} :
                    units'[u] = units[u] \/ units'[v] = units[v]]_vars

\* a fully revealed unit with marks beside a partially revealed one
RevealedBesidePartial ==
    \E u \in DOMAIN units :
        \E v \in (DOMAIN units) \ {u} :
            /\ units[u].full
            /\ units[u].temp # {}
            /\ ~units[v].full
            /\ units[v].temp # {}

(***************************************************************************)
(* Properties of the marker regex and the transformers (ScanSpec).         *)
(***************************************************************************)
\* the texts the current state hands to the regex: the text leaves of the
\* element outside reveal containers, or the document
ScannedTexts ==
    IF mode = "reading"
    THEN {region[i].text : i \in {j \in DOMAIN region : region[j].kind = "text"}}
    ELSE {doc}

UnitNodes == {i \in DOMAIN region : region[i].kind = "unit"}

\* C8: after a pass of the post-processor over an element, no text leaf
\* outside a reveal container holds a match.
OneShotReplacesAllMatches ==
    [][mode = "reading" =>
          \A i \in DOMAIN region' :
              region'[i].kind = "text" =>
                  matchAll(region'[i].text, prefix) = <<>>]_vars

\* C9: the matches of one scan start at strictly increasing positions, each
\* at or after the end of the one before; lastIndex of the post-processor's
\* loop never decreases and never passes the next match; the decorations of
\* the editor are added by increasing start and do not overlap.
ScanInOrder ==
    /\ \A t \in ScannedTexts :
          LET matches == matchAll(t, prefix)
              lastIndex == LastIndexValues(matches)
          IN  /\ \A i \in 1 .. (Len(matches) - 1) :
                    /\ matches[i].index < matches[i + 1].index
                    /\ matches[i].index + Len(matches[i].all)
                          <= matches[i + 1].index
              /\ \A i \in 1 .. Len(matches) :
                    /\ lastIndex[i] <= lastIndex[i + 1]
                    /\ lastIndex[i] <= matches[i].index
    /\ \A i \in 1 .. (Len(decorations) - 1) :
          /\ decorations[i].from <= decorations[i + 1].from
          /\ decorations[i].to <= decorations[i + 1].from

\* an element in which the pass replaced two matches
TwoUnitsSubstituted ==
    mode = "reading" /\ Cardinality(UnitNodes) >= 2

\* the characters that are syntax in a regular expression
SyntaxCharacters ==
    {"^", "$", "\\", ".", "*", "+", "?", "(", ")", "[", "]", "{", "}", "|"}

\* C10: every match is the prefix, character by character, followed by a
\* run of one or more word characters that no word character follows; the
\* token is that run and the match is as long as prefix and token together;
\* every syntax character of a prefix is escaped; "Please re:obsidian now"
\* with prefix "re:" has the one match "re:obsidian", token "obsidian".
MatchIsPrefixThenWordRun ==
    /\ \A t \in ScannedTexts :
          LET matches == matchAll(t, prefix)
          IN  \A i \in 1 .. Len(matches) :
                  LET m == matches[i]
                      tokenStart == m.index + Len(prefix)
                      matchEnd == m.index + Len(m.all)
                  IN  /\ tokenStart <= Len(t)
                      /\ SubSeq(t, m.index + 1, tokenStart) = prefix
                      /\ Len(m.word) >= 1
                      /\ \A j \in 1 .. Len(m.word) : m.word[j] \in WordChars
                      /\ m.word = SubSeq(t, tokenStart + 1, matchEnd)
                      /\ matchEnd - m.index = Len(prefix) + Len(m.word)
                      /\ matchEnd = Len(t) \/ t[matchEnd + 1] \notin WordChars
    /\ \A c \in SyntaxCharacters : escapePrefix(<<c>>) = <<"\\", c>>
    /\ (prefix = ScenarioPrefix /\ ScenarioText \in ScannedTexts) =>
          matchAll(ScenarioText, prefix)
             = <<[index |-> 7,
                  all   |-> <<"r", "e", ":", "o", "b", "s", "i", "d", "i", "a", "n">>,
                  word  |-> <<"o", "b", "s", "i", "d", "i", "a", "n">>]>>

\* the scenario's element after the pass: "Please ", the unit of "obsidian"
\* and " now"
ScenarioSubstituted ==
    /\ prefix = ScenarioPrefix
    /\ Len(region) = 3
    /\ region[2] = UnitNode(<<"o", "b", "s", "i", "d", "i", "a", "n">>)

\* the source text an element stands for: a text leaf is its text, a reveal
\* container is the prefix and its letters
RECURSIVE SourceText(_, _)
SourceText(nodes, p) ==
    IF nodes = <<>> THEN <<>>
    ELSE (IF Head(nodes).kind = "unit" THEN p \o Head(nodes).text
          ELSE Head(nodes).text)
         \o SourceText(Tail(nodes), p)

\* text, unit, text, ..., text
Alternating(nodes) ==
    /\ Len(nodes) % 2 = 1
    /\ \A i \in DOMAIN nodes :
          nodes[i].kind = (IF i % 2 = 1 THEN "text" ELSE "unit")

\* C12: the fragment that replaces a text leaf with matches alternates
\* text, unit, ..., text, has one unit per match, and spells the leaf's text
\* when every unit is read as prefix and token; a pass leaves the source
\* text of the whole element as it was; a text leaf without a match stays
\* the same node at the same place, counted from the start of the element
\* or from its end.
OneShotKeepsOtherText ==
    /\ [](mode = "reading" =>
             \A t \in ScannedTexts :
                 LET matches == matchAll(t, prefix)
                     fragment == FragmentFrom(t, matches, 0)
                 IN  matches # <<>> =>
                         /\ Alternating(fragment)
                         /\ Len(fragment) = 2 * Len(matches) + 1
                         /\ SourceText(fragment, prefix) = t)
    /\ [][mode = "reading" =>
             /\ SourceText(region', prefix) = SourceText(region, prefix)
             /\ Len(region') >= Len(region)
             /\ \A i \in DOMAIN region :
                   (region[i].kind = "unit"
                        \/ matchAll(region[i].text, prefix) = <<>>) =>
                       \/ region'[i] = region[i]
                       \/ region'[i + Len(region') - Len(region)] = region[i]]_vars

\* a pass left the first text leaf, which has no match, and replaced the
\* second by an empty text, a unit and an empty text
SecondLeafRewritten ==
    /\ mode = "reading"
    /\ Len(region) = 4
    /\ region[1].kind = "text"
    /\ region[1].text # <<>>
    /\ region[3].kind = "unit"

\* no text leaf outside a reveal container holds a match
FullyTransformed(nodes, p) ==
    \A i \in DOMAIN nodes :
        nodes[i].kind = "text" => matchAll(nodes[i].text, p) = <<>>

\* C13: a pass over an element that is fully transformed (no text leaf
\* outside a reveal container holds a match) returns the element as it is,
\* with the same containers and no new one; this holds for the element of
\* the state and for the result of a pass over it; and a pass keeps every
\* container of the element as it is, whatever text surrounds it.
SecondPassChangesNothing ==
    mode = "reading" =>
        LET once == buildReadingModeProcessor(region, prefix)
            twice == buildReadingModeProcessor(once, prefix)
        IN  /\ FullyTransformed(region, prefix) => once = region
            /\ FullyTransformed(once, prefix) => twice = once
            /\ \A i \in UnitNodes :
                  \/ once[i] = region[i]
                  \/ once[i + Len(once) - Len(region)] = region[i]

\* a fully transformed element in which the text before a container and
\* the container's letters together spell a marker
UnitAfterPrefixText ==
    /\ mode = "reading"
    /\ FullyTransformed(region, prefix)
    /\ \E i \in UnitNodes :
          /\ i > 1
          /\ region[i - 1].kind = "text"
          /\ matchAll(region[i - 1].text \o region[i].text, prefix) # <<>>

(***************************************************************************)
(* Properties of the editor plugin (LiveSpec).                             *)
(***************************************************************************)
\* a step in which update() saw docChanged, viewportChanged or selectionSet
ViewChanged ==
    <<doc, visibleRanges, selection>>' # <<doc, visibleRanges, selection>>

\* the selection sel touches the closed span from .. to: it starts at or
\* before to and ends at or after from
TouchesSpan(sel, from, to) == sel.from <= to /\ sel.to >= from

\* the selection sel lies in or overlaps the span from (included) to to
\* (excluded): an insertion point is at one of its positions, a selection
\* covers one of its characters
OverlapsHalfOpenSpan(sel, from, to) ==
    IF sel.from = sel.to
    THEN from <= sel.from /\ sel.from < to
    ELSE sel.from < to /\ sel.to > from

\* after a rebuild there is one decoration for every match of the visible
\* ranges, in order, over the span of the match, and Inside(selection,
\* matchStart, matchEnd) decides that it is a mark and not a widget
SelectionRule(Inside(_, _, _)) ==
    ViewChanged =>
        LET found == ScanRanges(doc', prefix', visibleRanges')
        IN  /\ Len(decorations') = Len(found)
            /\ \A i \in 1 .. Len(found) :
                  /\ decorations'[i].from = found[i].startIndex
                  /\ decorations'[i].to = found[i].endIndex
                  /\ decorations'[i].kind \in {"mark", "widget"}
                  /\ decorations'[i].kind = "mark"
                        <=> Inside(selection', found[i].startIndex,
                                   found[i].endIndex)

\* C14 as stated: in every rebuild each match of the visible window has
\* exactly one decoration, a mark when the insertion point or selection
\* lies in or overlaps [matchStart, matchEnd) and a widget otherwise.  The
\* prefix is one that is not empty, so that the matches are markers.
SelectionRuleHalfOpen ==
    [][prefix' # <<>> => SelectionRule(OverlapsHalfOpenSpan)]_vars

\* C14, amended: in every rebuild each match of the visible window has
\* exactly one decoration, a mark when the selection touches the closed
\* span (selection.from <= matchEnd and selection.to >= matchStart, so an
\* insertion point directly before or after the match counts) and a widget
\* otherwise; when the insertion point moves from a position touching the
\* span of a marked match to one that does not, in the same document and
\* visible ranges, the rebuild makes that match a widget.
SelectionRuleClosedSpan ==
    [][/\ SelectionRule(TouchesSpan)
       /\ \A i \in DOMAIN decorations :
             (/\ doc' = doc
              /\ visibleRanges' = visibleRanges
              /\ prefix' = prefix
              /\ selection.from = selection.to
              /\ TouchesSpan(selection, decorations[i].from, decorations[i].to)
              /\ selection'.from = selection'.to
              /\ ~TouchesSpan(selection', decorations[i].from,
                              decorations[i].to)
              /\ decorations = buildDecorations(doc, prefix, visibleRanges,
                                                selection)) =>
                 /\ decorations[i].kind = "mark"
                 /\ decorations'[i].kind = "widget"]_vars

\* the insertion point directly after a match, which is a mark
InsertionPointAtMatchEnd ==
    /\ mode = "live"
    /\ selection.from = selection.to
    /\ \E i \in DOMAIN decorations :
          /\ decorations[i].kind = "mark"
          /\ decorations[i].to = selection.from
          /\ decorations = buildDecorations(doc, prefix, visibleRanges,
                                            selection)

\* C15: a rebuild with the empty prefix finds no match: it adds no
\* decoration and draws no unit.
EmptyPrefixRefused ==
    [][(ViewChanged /\ prefix' = <<>>) =>
          /\ decorations' = <<>>
          /\ units' = <<>>]_vars

\* C16: after every step in which the document, the visible ranges or the
\* selection changed, the decorations are what buildDecorations gives for
\* the new document, visible ranges and selection and the prefix, whatever
\* the decorations and the units were before; there is one unit for every
\* widget decoration, with the letters of its word, and every unit is
\* hidden: not fully revealed, no letter temporarily visible.
RebuiltFromScratch ==
    [][ViewChanged =>
          /\ decorations' = buildDecorations(doc', prefix', visibleRanges',
                                             selection')
          /\ Len(units') = Len(WidgetDecorations(decorations'))
          /\ \A u \in DOMAIN units' :
                /\ units'[u].letters = WidgetDecorations(decorations')[u].word
                /\ units'[u].temp = {}
                /\ ~units'[u].full]_vars

\* decorations that were built for another prefix and a unit that is fully
\* revealed with letters marked, in a view whose selection has moved
StaleDecorationsAndRevealedUnit ==
    /\ mode = "live"
    /\ selection.from > 0
    /\ decorations # buildDecorations(doc, prefix, visibleRanges, selection)
    /\ \E u \in DOMAIN units : units[u].full /\ units[u].temp # {}

\* the selection sel of the document d is a word or a phrase: it starts
\* with a word character, and the characters next to it, if any, are not
\* word characters
SelectedPhrase(d, sel) ==
    /\ sel.from < sel.to
    /\ d[sel.from + 1] \in WordChars
    /\ sel.from > 0 => d[sel.from] \notin WordChars
    /\ sel.to < Len(d) => d[sel.to + 1] \notin WordChars

\* C18: when "Apply Reveal Text" has replaced a selected word or phrase S
\* by prefix and S (the prefix not empty), the scan of the new document
\* has a match at the place of the selection whose token is the whole of S.
ApplyRevealTextRoundTrip ==
    [][\A S \in {SubSeq(doc, selection.from + 1, selection.to)} :
          (/\ mode = "live"
           /\ prefix # <<>>
           /\ SelectedPhrase(doc, selection)
           /\ doc' = ReplaceSelection(doc, selection, prefix \o S)) =>
              \E i \in DOMAIN matchAll(doc', prefix) :
                  /\ matchAll(doc', prefix)[i].index = selection.from
                  /\ matchAll(doc', prefix)[i].word = S]_vars

(***************************************************************************)
(* Properties of the three versions (VariantSpec).                         *)
(***************************************************************************)
\* C19: the reveal count of every hover is at most letters.length, so every
\* index the loop takes from shuffledIndices is the index of a letter; the
\* marked letters are letters of the container; a container built by
\* main.ts or part_001 has at least one letter; and for every length and
\* draw, getRevealCount is at most the length from 1 letter on and the
\* count of part_000 is at most the length from 0 letters on.
HoverAddressesExistingCells ==
    /\ revealCount <= wordLength
    /\ \A u \in DOMAIN units :
          /\ units[u].temp \subseteq Indices(units[u])
          /\ mode \in {"main", "part_001"} => Len(units[u].letters) >= 1
          /\ \A d \in Draws :
                VariantRevealCount(mode, Len(units[u].letters), d)
                    <= Len(units[u].letters)
    /\ \A d \in Draws :
          /\ \A n \in 1 .. MaxWordLength : getRevealCount(n, d) <= n
          /\ \A n \in 0 .. MaxWordLength :
                VariantRevealCount("part_000", n, d) <= n

\* part_000 built a container without letters for ++++ and it was hovered
EmptyUnitHovered ==
    /\ mode = "part_000"
    /\ Len(units) = 1
    /\ units[1].letters = <<>>
    /\ draw > 0

====
